---- MODULE Spec2Model ----
(***************************************************************************)
(* Page compression codec layer: fil_compress_page and fil_decompress_page *)
(* of fil/fil0pagecompress.cc (src/storage/maria/ma_rnext.c, lines 131 to  *)
(* 793).                                                                   *)
(*                                                                         *)
(* Scaling.  A page is a sequence of UNIV_PAGE_SIZE cells.  Every header   *)
(* field of the page (checksum, page type, flush-lsn/key-version, space    *)
(* id, payload length, short method tag) occupies one cell that holds the  *)
(* field's integer value; every other cell stands for one byte.  Offsets   *)
(* are 0-based as in the code; cell at offset o is element o + 1 of the    *)
(* sequence.  mach_write_to_N keeps the width of its field.                *)
(*                                                                         *)
(* The codec primitives (zlib, lz4, lzo, lzma, bzip2, snappy) are external *)
(* libraries.  They are modelled by one concrete token codec (literal      *)
(* blocks and runs) with a small worst-case expansion, called through each *)
(* library's own calling convention (capacity in/out, return value).       *)
(***************************************************************************)
EXTENDS Integers, Sequences, FiniteSets, TLC

(* ----------------------------------------------------------------------- *)
(* Page geometry and header layout                                         *)
(* ----------------------------------------------------------------------- *)
UNIV_PAGE_SIZE == 32

FIL_PAGE_SPACE_OR_CHKSUM == 0

FIL_PAGE_TYPE == 1

FIL_PAGE_FILE_FLUSH_LSN_OR_KEY_VERSION == 2

FIL_PAGE_SPACE_ID == 3

FIL_PAGE_DATA == 4

FIL_PAGE_COMPRESSED_SIZE == 1

FIL_PAGE_COMPRESSION_METHOD_SIZE == 1

BUF_NO_CHECKSUM_MAGIC == 57005

(* Page type tags *)
FIL_PAGE_TYPE_FSP_HDR == 8

FIL_PAGE_TYPE_XDES == 9

FIL_PAGE_PAGE_COMPRESSED == 34354

FIL_PAGE_PAGE_COMPRESSED_ENCRYPTED == 37401

FIL_PAGE_INDEX == 17855

(* Algorithm ids (innodb_compression_algorithm) *)
PAGE_UNCOMPRESSED == 0

PAGE_ZLIB_ALGORITHM == 1

PAGE_LZ4_ALGORITHM == 2

PAGE_LZO_ALGORITHM == 3

PAGE_LZMA_ALGORITHM == 4

PAGE_BZIP2_ALGORITHM == 5

PAGE_SNAPPY_ALGORITHM == 6

(* An algorithm id no build has a codec for *)
PAGE_UNKNOWN_ALGORITHM == 7

(* Codecs that are compiled in only under HAVE_LZ4 .. HAVE_SNAPPY *)
OptionalCodecs ==
  {PAGE_LZ4_ALGORITHM, PAGE_LZO_ALGORITHM, PAGE_LZMA_ALGORITHM,
   PAGE_BZIP2_ALGORITHM, PAGE_SNAPPY_ALGORITHM}

(* Width of ulint arithmetic (scaled) *)
ULINT_BITS == 20

ULINT_MOD == 2 ^ ULINT_BITS

(* ----------------------------------------------------------------------- *)
(* Byte-level helpers                                                      *)
(* ----------------------------------------------------------------------- *)
(* mach_write_to_2 / mach_read_from_2: a 16-bit big-endian field *)
mach_write_to_2(b, off, v) == [b EXCEPT ![off + 1] = v % 65536]

mach_read_from_2(b, off) == b[off + 1] % 65536

(* mach_write_to_4 / mach_read_from_4: every model value fits in 32 bits *)
mach_write_to_4(b, off, v) == [b EXCEPT ![off + 1] = v]

mach_read_from_4(b, off) == b[off + 1]

(* mach_write_to_8 / mach_read_from_8: every model value fits in 64 bits *)
mach_write_to_8(b, off, v) == [b EXCEPT ![off + 1] = v]

mach_read_from_8(b, off) == b[off + 1]

fil_page_get_type(b) == mach_read_from_2(b, FIL_PAGE_TYPE)

(* memset(b + off, v, n), clipped to the buffer: the cells past the end are *)
(* accounted for by the caller as an overrun                               *)
memset(b, off, v, n) ==
  SubSeq([i \in 1..Len(b) |-> IF i > off /\ i <= off + n THEN v ELSE b[i]], 1, Len(b))

(* memcpy(dst + off, src, n) for n <= Len(src), clipped to dst *)
memcpy(dst, off, src, n) ==
  SubSeq([i \in 1..Len(dst) |->
            IF i > off /\ i <= off + n /\ i - off <= Len(src)
            THEN src[i - off] ELSE dst[i]],
         1, Len(dst))

(* ut_uint64_align_up(n, align) *)
ut_uint64_align_up(n, align) == ((n + align - 1) \div align) * align

(* n cells of value v *)
Fill(n, v) == SubSeq([i \in 1..n |-> v], 1, n)

(* ----------------------------------------------------------------------- *)
(* The codec primitive                                                     *)
(* ----------------------------------------------------------------------- *)
TOK_LIT == 1

TOK_RUN == 2

MIN_RUN == 3

RECURSIVE RunLen(_, _)
RunLen(s, i) ==
  IF i < Len(s) /\ s[i + 1] = s[i] THEN 1 + RunLen(s, i + 1) ELSE 1

Flush(lit) == IF lit = <<>> THEN <<>> ELSE <<TOK_LIT, Len(lit)>> \o lit

RECURSIVE Encode(_, _, _)
Encode(s, i, lit) ==
  IF i > Len(s) THEN Flush(lit)
  ELSE LET n == RunLen(s, i) IN
       IF n >= MIN_RUN
       THEN Flush(lit) \o <<TOK_RUN, n, s[i]>> \o Encode(s, i + n, <<>>)
       ELSE Encode(s, i + 1, Append(lit, s[i]))

(* The compressed stream of s *)
CodecCompress(s) == Encode(s, 1, <<>>)

(* Decoding p from position i with `out` produced so far.  Stops at the end *)
(* of p, or as soon as `limit` cells are out when stop_at_limit is set     *)
(* (LZ4_decompress_fast).  Result: ok, the output, the cells of p consumed. *)
RECURSIVE Decode(_, _, _, _, _)
Decode(p, i, out, limit, stop_at_limit) ==
  IF stop_at_limit /\ Len(out) = limit THEN [ok |-> TRUE, out |-> out, used |-> i - 1]
  ELSE IF i > Len(p) THEN [ok |-> ~stop_at_limit, out |-> out, used |-> i - 1]
  ELSE IF i + 1 > Len(p) THEN [ok |-> FALSE, out |-> out, used |-> i - 1]
  ELSE LET n == p[i + 1] IN
       IF n < 1 \/ Len(out) + n > limit THEN [ok |-> FALSE, out |-> out, used |-> i - 1]
       ELSE IF p[i] = TOK_LIT
       THEN IF i + 1 + n > Len(p) THEN [ok |-> FALSE, out |-> out, used |-> i - 1]
            ELSE Decode(p, i + 2 + n, out \o SubSeq(p, i + 2, i + 1 + n), limit,
                        stop_at_limit)
       ELSE IF p[i] = TOK_RUN
       THEN IF i + 2 > Len(p) THEN [ok |-> FALSE, out |-> out, used |-> i - 1]
            ELSE Decode(p, i + 3, out \o Fill(n, p[i + 2]), limit, stop_at_limit)
       ELSE [ok |-> FALSE, out |-> out, used |-> i - 1]

CodecDecompress(p, limit) == Decode(p, 1, <<>>, limit, FALSE)

CodecDecompressFast(p, original_size) == Decode(p, 1, <<>>, original_size, TRUE)

(* ----------------------------------------------------------------------- *)
(* fil_compress_page                                                       *)
(* ----------------------------------------------------------------------- *)
(* Content of memory the program has not written: an indeterminate value,  *)
(* different from every value the program writes                           *)
INDETERMINATE == -1

snappy_max_compressed_length(n) == 8 + n + n \div 6

LZO1X_1_15_MEM_COMPRESS == 16

(* Default block size used when the caller passes zero (512 bytes) *)
DEFAULT_BLOCK_SIZE == 4

(* Whether this build has a case for comp_method in the dispatch *)
Compiled(have, comp_method) ==
  comp_method \in {PAGE_UNCOMPRESSED, PAGE_ZLIB_ALGORITHM} \cup have

(* Size of the scratch buffer malloc'ed when the caller passes no out_buf; *)
(* a caller that passes one sizes it by the same rule                      *)
OutBufSize(have, comp_method) ==
  IF comp_method = PAGE_SNAPPY_ALGORITHM /\ comp_method \in have
  THEN snappy_max_compressed_length(UNIV_PAGE_SIZE)
  ELSE IF comp_method = PAGE_LZO_ALGORITHM /\ comp_method \in have
  THEN UNIV_PAGE_SIZE + LZO1X_1_15_MEM_COMPRESS
  ELSE UNIV_PAGE_SIZE

(* IneligibleType without the case label of the extent descriptor *)
IneligibleType_NoXdes(t) ==
  t \in {0, FIL_PAGE_TYPE_FSP_HDR, FIL_PAGE_PAGE_COMPRESSED}

(* The page types fil_compress_page passes through *)
IneligibleType(t) ==
  t \in {0, FIL_PAGE_TYPE_FSP_HDR, FIL_PAGE_TYPE_XDES, FIL_PAGE_PAGE_COMPRESSED}

HeaderLen(encrypted) ==
  FIL_PAGE_DATA + FIL_PAGE_COMPRESSED_SIZE
  + (IF encrypted THEN FIL_PAGE_COMPRESSION_METHOD_SIZE ELSE 0)

(* The stream the codec produces for src at comp_level: zlib at level 0    *)
(* stores the input, every other call compresses it                        *)
CodecStream(comp_method, src, comp_level) ==
  IF comp_method = PAGE_ZLIB_ALGORITHM /\ comp_level = 0
  THEN <<TOK_LIT, Len(src)>> \o src
  ELSE CodecCompress(src)

(* The compress primitive of comp_method called as fil_compress_page calls *)
(* it.  cap: the output capacity the primitive is told; bounded: whether   *)
(* the primitive honours a capacity at all (lzo1x_1_15_compress takes      *)
(* none); ok: the status test of the switch arm; write_size: its value     *)
(* after the arm; wrote: the cells written at out_buf + header_len.        *)
CompressPrimitive(comp_method, src, header_len, comp_level, codec_fails) ==
  LET c == CodecStream(comp_method, src, comp_level)
      budget == UNIV_PAGE_SIZE - header_len
      cap == IF comp_method = PAGE_SNAPPY_ALGORITHM
             THEN snappy_max_compressed_length(UNIV_PAGE_SIZE)
             ELSE budget
      bounded == comp_method # PAGE_LZO_ALGORITHM
      fits == ~bounded \/ Len(c) <= cap
      done == ~codec_fails /\ fits
      wrote == IF codec_fails THEN <<>>
               ELSE IF fits THEN c ELSE SubSeq(c, 1, cap)
      size == CASE ~done /\ comp_method = PAGE_LZ4_ALGORITHM -> 0
                []  ~done /\ comp_method = PAGE_LZMA_ALGORITHM -> 0
                []  ~done /\ comp_method = PAGE_LZO_ALGORITHM -> 0
                []  ~done -> cap
                []  OTHER -> Len(c)
      checked == comp_method \notin {PAGE_ZLIB_ALGORITHM, PAGE_LZ4_ALGORITHM}
  IN [ok |-> done /\ (~checked \/ size <= budget),
      write_size |-> size,
      cap |-> IF bounded THEN cap ELSE -1,
      wrote |-> wrote]

(* ----------------------------------------------------------------------- *)
(* fil_decompress_page                                                     *)
(* ----------------------------------------------------------------------- *)
(* The cells buf + off .. buf + off + n - 1; a cell past the end of the    *)
(* page buffer has an indeterminate value                                  *)
ReadCells(buf, off, n) ==
  SubSeq([i \in 1..n |-> IF off + i <= Len(buf) THEN buf[off + i] ELSE INDETERMINATE],
         1, n)

(* The decompress primitive of compression_alg called as                   *)
(* fil_decompress_page calls it.  fail: the test of the switch arm; out:   *)
(* the cells written to in_buf; len: the value of len after the arm.       *)
DecompressPrimitive(compression_alg, buf, header_len, actual_size, len, codec_fails) ==
  LET src == ReadCells(buf, header_len, actual_size)
      nolimit == 4 * UNIV_PAGE_SIZE
  IN CASE compression_alg = PAGE_ZLIB_ALGORITHM ->
            LET r == CodecDecompress(src, len)
            IN [fail |-> codec_fails \/ ~r.ok, out |-> r.out,
                len |-> IF codec_fails \/ ~r.ok THEN len ELSE Len(r.out)]
       [] compression_alg = PAGE_LZ4_ALGORITHM ->
            LET r == CodecDecompressFast(
                       ReadCells(buf, header_len, UNIV_PAGE_SIZE - header_len), len)
                err == IF codec_fails \/ ~r.ok THEN -1 ELSE r.used
            IN [fail |-> err # actual_size, out |-> r.out, len |-> len]
       [] compression_alg = PAGE_LZO_ALGORITHM ->
            LET r == CodecDecompress(src, nolimit)
                olen == Len(r.out)
                bad == codec_fails \/ ~r.ok \/ olen = 0 \/ olen > UNIV_PAGE_SIZE
            IN [fail |-> bad, out |-> r.out, len |-> IF bad THEN olen ELSE len]
       [] compression_alg = PAGE_LZMA_ALGORITHM ->
            LET r == CodecDecompress(src, len)
                dst_pos == Len(r.out)
                bad == codec_fails \/ ~r.ok \/ dst_pos = 0 \/ dst_pos > UNIV_PAGE_SIZE
            IN [fail |-> bad, out |-> r.out, len |-> IF bad THEN dst_pos ELSE len]
       [] OTHER ->
            (* PAGE_BZIP2_ALGORITHM and PAGE_SNAPPY_ALGORITHM: the capacity *)
            (* passed is UNIV_PAGE_SIZE                                     *)
            LET r == CodecDecompress(src, UNIV_PAGE_SIZE)
                dst_pos == Len(r.out)
                bad == codec_fails \/ ~r.ok \/ dst_pos = 0 \/ dst_pos > UNIV_PAGE_SIZE
            IN [fail |-> bad, out |-> r.out, len |-> IF bad THEN dst_pos ELSE len]

(* The result of a fil_decompress_page call that did not reach the codec   *)
(* or failed in it: the buffer is as it was.  A result names an argument   *)
(* (return_error, and below level, encrypted) only on the paths that read  *)
(* it.                                                                     *)
DecompressStop(outcome, buf, return_error, allocs, frees, errors, ws_written, ws, called) ==
  [outcome |-> outcome, buf |-> buf, return_error |-> return_error,
   allocs |-> allocs, frees |-> frees,
   errors |-> errors, ws_written |-> ws_written, write_size |-> ws,
   codec_called |-> called, d_decompressed |-> 0, decoded |-> 0, overread |-> FALSE,
   overrun |-> FALSE]

(* ut_error aborts in every build; ut_ad(0) aborts in a UNIV_DEBUG build   *)
(* and is empty otherwise, so that err_exit then falls off the end of the  *)
(* function and returns                                                    *)
ErrExitOutcome(univ_debug) == IF univ_debug THEN "abort" ELSE "err_exit"

(* What a header corruption leads to: error_return in report mode, else    *)
(* ut_error                                                                *)
CorruptionOutcome(return_error) == IF return_error THEN "error_return" ELSE "abort"

(* Where a failing switch arm goes: err_exit, whatever return_error says   *)
(* (the test of return_error follows the goto)                             *)
DecodeFailureOutcome(univ_debug, return_error) == ErrExitOutcome(univ_debug)

(* The switch arm has run: d is what the primitive did *)
DecompressDispatched(univ_debug, buf, page_buf_given, header_len, actual_size, ws_given, return_error, d) ==
  LET allocs == IF page_buf_given THEN 0 ELSE 1
      in_buf == IF page_buf_given THEN Fill(UNIV_PAGE_SIZE, INDETERMINATE)
                ELSE Fill(UNIV_PAGE_SIZE, 0)
      over_r == header_len + actual_size > UNIV_PAGE_SIZE
      over_w == Len(d.out) > UNIV_PAGE_SIZE
  IN IF d.fail
     THEN [DecompressStop(DecodeFailureOutcome(univ_debug, return_error), buf,
                          return_error, allocs, 0, 1, ws_given, actual_size, TRUE)
           EXCEPT !.overread = over_r, !.overrun = over_w]
     ELSE [outcome |-> "ok", return_error |-> FALSE,
           buf |-> memcpy(buf, 0, memcpy(in_buf, 0, d.out, Len(d.out)), d.len),
           allocs |-> allocs, frees |-> allocs, errors |-> 0,
           ws_written |-> ws_given, write_size |-> actual_size,
           codec_called |-> TRUE, d_decompressed |-> 1, decoded |-> Len(d.out),
           overread |-> over_r, overrun |-> over_w]

(* The header fields fil_decompress_page reads from a page in our format, *)
(* is_enc telling which of the two markers ptype is                        *)
ReadHeader(buf, is_enc) ==
  [header_len |-> HeaderLen(is_enc),
   magic |-> mach_read_from_4(buf, FIL_PAGE_SPACE_OR_CHKSUM),
   compression_alg |->
     IF is_enc
     THEN mach_read_from_2(buf, FIL_PAGE_DATA + FIL_PAGE_COMPRESSED_SIZE)
     ELSE mach_read_from_8(buf, FIL_PAGE_FILE_FLUSH_LSN_OR_KEY_VERSION),
   actual_size |-> mach_read_from_2(buf, FIL_PAGE_DATA)]

(* The page is in our format: ptype is one of the two markers *)
DecompressMarked(univ_debug, have, buf, page_buf_given, len, ws_given, return_error, codec_fails, is_enc) ==
  LET header_len == ReadHeader(buf, is_enc).header_len
      allocs == IF page_buf_given THEN 0 ELSE 1
      bad_magic == ReadHeader(buf, is_enc).magic # BUF_NO_CHECKSUM_MAGIC
      compression_alg == ReadHeader(buf, is_enc).compression_alg
      actual_size == ReadHeader(buf, is_enc).actual_size
      bad_size == actual_size = 0 \/ actual_size > UNIV_PAGE_SIZE
      (* error_return frees the scratch buffer; ut_error does not return *)
      corrupt_frees == IF return_error THEN allocs ELSE 0
      known == compression_alg = PAGE_ZLIB_ALGORITHM
               \/ compression_alg \in (have \cap OptionalCodecs)
  IN IF bad_magic \/ bad_size
     THEN DecompressStop(CorruptionOutcome(return_error), buf, return_error, allocs,
                         corrupt_frees, 1, FALSE, 0, FALSE)
     ELSE IF ~known
     THEN DecompressStop(DecodeFailureOutcome(univ_debug, return_error), buf,
                         return_error, allocs, 0, 1, ws_given, actual_size, FALSE)
     ELSE DecompressDispatched(univ_debug, buf, page_buf_given, header_len, actual_size,
                               ws_given, return_error,
                               DecompressPrimitive(compression_alg, buf, header_len,
                                                   actual_size, len, codec_fails))

(* fil_decompress_page with the scratch buffer allocated before the page   *)
(* type is looked at                                                       *)
fil_decompress_page_AllocFirst(univ_debug, have, buf, page_buf_given, len, ws_given, return_error, codec_fails) ==
  IF mach_read_from_2(buf, FIL_PAGE_TYPE) = FIL_PAGE_PAGE_COMPRESSED_ENCRYPTED
  THEN DecompressMarked(univ_debug, have, buf, page_buf_given, len, ws_given,
                        return_error, codec_fails, TRUE)
  ELSE IF mach_read_from_2(buf, FIL_PAGE_TYPE) = FIL_PAGE_PAGE_COMPRESSED
  THEN DecompressMarked(univ_debug, have, buf, page_buf_given, len, ws_given,
                        return_error, codec_fails, FALSE)
  ELSE DecompressStop("not_our_format", buf, FALSE, IF page_buf_given THEN 0 ELSE 1,
                      0, 0, FALSE, 0, FALSE)

(* fil_decompress_page(page_buf, buf, len, write_size, return_error).      *)
(* univ_debug, have: the build.  page_buf_given, ws_given: whether the     *)
(* caller passes page_buf and write_size.  codec_fails: the primitive      *)
(* reports an error of its own.                                            *)
fil_decompress_page(univ_debug, have, buf, page_buf_given, len, ws_given, return_error, codec_fails) ==
  IF mach_read_from_2(buf, FIL_PAGE_TYPE) = FIL_PAGE_PAGE_COMPRESSED_ENCRYPTED
  THEN DecompressMarked(univ_debug, have, buf, page_buf_given, len, ws_given,
                        return_error, codec_fails, TRUE)
  ELSE IF mach_read_from_2(buf, FIL_PAGE_TYPE) = FIL_PAGE_PAGE_COMPRESSED
  THEN DecompressMarked(univ_debug, have, buf, page_buf_given, len, ws_given,
                        return_error, codec_fails, FALSE)
  ELSE DecompressStop("not_our_format", buf, FALSE, 0, 0, 0, FALSE, 0, FALSE)

(* ----------------------------------------------------------------------- *)
(* fil_compress_page, continued                                            *)
(* ----------------------------------------------------------------------- *)
(* The header fil_compress_page sets up in out_buf *)
WriteHeader_NoMethodCell(out_buf, buf, comp_method, encrypted, write_size) ==
  LET h1 == memcpy(out_buf, 0, buf, FIL_PAGE_DATA)
      h2 == mach_write_to_4(h1, FIL_PAGE_SPACE_OR_CHKSUM, BUF_NO_CHECKSUM_MAGIC)
      h3 == mach_write_to_8(h2, FIL_PAGE_FILE_FLUSH_LSN_OR_KEY_VERSION, comp_method)
      h4 == IF encrypted
            THEN mach_write_to_2(h3, FIL_PAGE_TYPE, FIL_PAGE_PAGE_COMPRESSED_ENCRYPTED)
            ELSE mach_write_to_2(h3, FIL_PAGE_TYPE, FIL_PAGE_PAGE_COMPRESSED)
  IN mach_write_to_2(h4, FIL_PAGE_DATA, write_size)

WriteHeader(out_buf, buf, comp_method, encrypted, write_size) ==
  LET h1 == memcpy(out_buf, 0, buf, FIL_PAGE_DATA)
      h2 == mach_write_to_4(h1, FIL_PAGE_SPACE_OR_CHKSUM, BUF_NO_CHECKSUM_MAGIC)
      h3 == mach_write_to_8(h2, FIL_PAGE_FILE_FLUSH_LSN_OR_KEY_VERSION, comp_method)
      h4 == IF encrypted
            THEN mach_write_to_2(
                   mach_write_to_2(h3, FIL_PAGE_TYPE, FIL_PAGE_PAGE_COMPRESSED_ENCRYPTED),
                   FIL_PAGE_DATA + FIL_PAGE_COMPRESSED_SIZE, comp_method)
            ELSE mach_write_to_2(h3, FIL_PAGE_TYPE, FIL_PAGE_PAGE_COMPRESSED)
  IN mach_write_to_2(h4, FIL_PAGE_DATA, write_size)

(* The block size the write is aligned on *)
EffectiveBlockSize(block_size) ==
  IF block_size <= 0 THEN DEFAULT_BLOCK_SIZE ELSE block_size

(* len - write_size in ulint arithmetic *)
UlintSub(a, b) == (a - b) % ULINT_MOD

(* A test with the flag the other way round *)
ShouldWarn_WhenPrinted(has_space, printed) == has_space /\ printed

(* A test that looks at the tablespace only *)
ShouldWarn_Always(has_space, printed) == has_space

(* The test in front of the warning: the call has a tablespace and the    *)
(* tablespace has not been warned about                                    *)
ShouldWarn(has_space, printed) == has_space /\ ~printed

(* The err_exit path of fil_compress_page: the page is left as it was *)
CompressErrExit(buf, len, allocated, has_space, printed, header_len, write_size, called, level, comp_level, cap, wrote, overrun) ==
  [outcome |-> "failed", ret |-> "buf", buf |-> buf, out |-> <<>>, out_len |-> len,
   header_len |-> header_len, payload_len |-> write_size, block |-> 0, aligned |-> 0,
   level |-> level,
   codec_called |-> called, codec_level |-> comp_level, codec_cap |-> cap,
   codec_wrote |-> wrote,
   allocs |-> IF allocated THEN 1 ELSE 0, frees |-> IF allocated THEN 1 ELSE 0,
   warned |-> ShouldWarn(has_space, printed),
   printed |-> printed \/ ShouldWarn(has_space, printed),
   d_saved |-> 0, d_compressed |-> 0, d_errors |-> 1, d_decompressed |-> 0,
   overrun |-> overrun]

(* Where a page of an ineligible type goes: err_exit *)
IneligibleExit(buf, len, allocated, has_space, printed) ==
  [CompressErrExit(buf, len, allocated, has_space, printed, 0, 0, FALSE, 0, 0, 0, 0,
                   FALSE)
   EXCEPT !.outcome = "ineligible"]

(* case PAGE_UNCOMPRESSED: return (buf), without passing exit_free *)
UncompressedExit(buf, len, allocated, printed) ==
  [outcome |-> "uncompressed", ret |-> "buf", buf |-> buf, out |-> <<>>, out_len |-> len,
   header_len |-> 0, payload_len |-> 0, block |-> 0, aligned |-> 0, level |-> 0,
   codec_called |-> FALSE, codec_level |-> 0, codec_cap |-> 0, codec_wrote |-> 0,
   allocs |-> IF allocated THEN 1 ELSE 0, frees |-> 0,
   warned |-> FALSE, printed |-> printed,
   d_saved |-> 0, d_compressed |-> 0, d_errors |-> 0, d_decompressed |-> 0,
   overrun |-> FALSE]

(* default: ut_error, and a failed assertion of a UNIV_DEBUG build *)
CompressAbort(buf, allocated, printed) ==
  [UncompressedExit(buf, 0, allocated, printed) EXCEPT !.outcome = "abort", !.ret = "none"]

(* A level that is the default whatever the caller asked for *)
CompLevel_Default(level, page_zip_level) == page_zip_level

(* The codecs whose primitive takes comp_level: compress2 and              *)
(* lzma_easy_buffer_encode                                                 *)
LevelAware == {PAGE_ZLIB_ALGORITHM, PAGE_LZMA_ALGORITHM}

(* The level handed to the codec *)
CompLevel(level, page_zip_level) == IF level = 0 THEN page_zip_level ELSE level

(* A length that is the aligned one whatever srv_use_trim says *)
OutLen_Aligned(srv_use_trim, aligned, len) == aligned

(* *out_len of a successful call: the aligned length, or len when the     *)
(* rest of the page was zeroed because trim is not in use                  *)
OutLen(srv_use_trim, aligned, len) == IF srv_use_trim THEN aligned ELSE len

(* The tail of a successful call, from the alignment on: out2 holds the   *)
(* header and the payload, tmp is header_len + payload length, aligned is  *)
(* tmp aligned up on the block size bs                                     *)
CompressAligned(srv_use_trim, printed, buf, allocated, len, level, comp_level, header_len, size, prim, out2, bs, tmp, aligned, d_decompressed) ==
  LET out3 == memset(out2, tmp, 0, aligned - tmp)
      rest == UlintSub(len, aligned)
      out4 == IF srv_use_trim THEN out3 ELSE memset(out3, aligned, 0, rest)
      overrun == \/ header_len + Len(prim.wrote) > size
                 \/ aligned > size
                 \/ ~srv_use_trim /\ aligned + rest > size
  IN [outcome |-> "compressed",
      ret |-> IF allocated THEN "buf" ELSE "out_buf",
      buf |-> IF allocated THEN memcpy(buf, 0, out4, len) ELSE buf,
      out |-> IF allocated THEN <<>> ELSE out4,
      out_len |-> OutLen(srv_use_trim, aligned, len),
      header_len |-> header_len, payload_len |-> prim.write_size,
      block |-> bs, aligned |-> aligned, level |-> level,
      codec_called |-> TRUE, codec_level |-> comp_level,
      codec_cap |-> prim.cap, codec_wrote |-> Len(prim.wrote),
      allocs |-> IF allocated THEN 1 ELSE 0,
      frees |-> IF allocated THEN 1 ELSE 0,
      warned |-> FALSE, printed |-> printed,
      d_saved |-> rest, d_compressed |-> 1, d_errors |-> 0,
      d_decompressed |-> d_decompressed,
      overrun |-> overrun]

(* write_size aligned up on the block size, when it is no multiple of it *)
AlignedWriteSize(tmp, bs) == IF tmp % bs # 0 THEN ut_uint64_align_up(tmp, bs) ELSE tmp

(* The UNIV_DEBUG block: the header is read back and the page decompressed *)
(* from a copy (verify); a page that does not come back as buf is reported *)
(* by buf_page_is_corrupted and fails ut_ad(0)                             *)
DebugVerifyFails(buf, len, comp_method, out2, write_size, verify) ==
  \/ fil_page_get_type(out2) \notin {FIL_PAGE_PAGE_COMPRESSED,
                                     FIL_PAGE_PAGE_COMPRESSED_ENCRYPTED}
  \/ mach_read_from_4(out2, FIL_PAGE_SPACE_OR_CHKSUM) # BUF_NO_CHECKSUM_MAGIC
  \/ mach_read_from_2(out2, FIL_PAGE_DATA) # write_size
  \/ /\ mach_read_from_8(out2, FIL_PAGE_FILE_FLUSH_LSN_OR_KEY_VERSION) # comp_method
     /\ mach_read_from_2(out2, FIL_PAGE_DATA + FIL_PAGE_COMPRESSED_SIZE) # comp_method
  \/ verify.outcome = "abort"
  \/ SubSeq(verify.buf, 1, len) # SubSeq(buf, 1, len)

(* The codec has succeeded and the header is set up in out2 *)
CompressHeaderSet(univ_debug, srv_use_trim, printed, buf, allocated, len, level, comp_level, block_size, header_len, size, comp_method, prim, out2, verify) ==
  IF univ_debug /\ DebugVerifyFails(buf, len, comp_method, out2, prim.write_size, verify)
  THEN CompressAbort(buf, allocated, printed)
  ELSE CompressAligned(srv_use_trim, printed, buf, allocated, len, level, comp_level,
                       header_len, size, prim, out2, EffectiveBlockSize(block_size),
                       prim.write_size + header_len,
                       AlignedWriteSize(prim.write_size + header_len,
                                        EffectiveBlockSize(block_size)),
                       IF univ_debug THEN verify.d_decompressed ELSE 0)

(* HeaderAndPayload with the payload put at FIL_PAGE_DATA, over the size   *)
(* field, instead of after the header                                      *)
HeaderAndPayload_AtData(buf, size, comp_method, encrypted, header_len, prim) ==
  WriteHeader(memcpy(Fill(size, INDETERMINATE), FIL_PAGE_DATA, prim.wrote,
                     Len(prim.wrote)),
              buf, comp_method, encrypted, prim.write_size)

(* The out_buf of a call whose codec succeeded: payload, then header *)
HeaderAndPayload(buf, size, comp_method, encrypted, header_len, prim) ==
  WriteHeader(memcpy(Fill(size, INDETERMINATE), header_len, prim.wrote, Len(prim.wrote)),
              buf, comp_method, encrypted, prim.write_size)

(* CompressDispatched with err_exit reporting write_size as the output     *)
(* length                                                                  *)
CompressDispatched_OutLen(univ_debug, have, srv_use_trim, printed, has_space, buf, allocated, len, level, comp_level, block_size, encrypted, header_len, size, comp_method, prim, out2) ==
  IF ~prim.ok
  THEN CompressErrExit(buf, prim.write_size, allocated, has_space, printed, header_len,
                       prim.write_size, TRUE, level, comp_level, prim.cap,
                       Len(prim.wrote), header_len + Len(prim.wrote) > size)
  ELSE CompressHeaderSet(univ_debug, srv_use_trim, printed, buf, allocated, len, level,
                         comp_level, block_size, header_len, size, comp_method, prim, out2,
                         fil_decompress_page(univ_debug, have,
                                             SubSeq(out2, 1, UNIV_PAGE_SIZE), TRUE, len,
                                             FALSE, FALSE, FALSE))

(* The switch arm of comp_method has run: prim is what the primitive did *)
CompressDispatched(univ_debug, have, srv_use_trim, printed, has_space, buf, allocated, len, level, comp_level, block_size, encrypted, header_len, size, comp_method, prim, out2) ==
  IF ~prim.ok
  THEN CompressErrExit(buf, len, allocated, has_space, printed, header_len,
                       prim.write_size, TRUE, level, comp_level, prim.cap,
                       Len(prim.wrote), header_len + Len(prim.wrote) > size)
  ELSE CompressHeaderSet(univ_debug, srv_use_trim, printed, buf, allocated, len, level,
                         comp_level, block_size, header_len, size, comp_method, prim, out2,
                         fil_decompress_page(univ_debug, have,
                                             SubSeq(out2, 1, UNIV_PAGE_SIZE), TRUE, len,
                                             FALSE, FALSE, FALSE))

(* The page is eligible and comp_method has a switch arm with a codec *)
CompressEligible(univ_debug, have, srv_use_trim, printed, has_space, buf, allocated, len, level, comp_level, block_size, encrypted, header_len, size, comp_method, prim) ==
  CompressDispatched(univ_debug, have, srv_use_trim, printed, has_space, buf, allocated,
                     len, level, comp_level, block_size, encrypted, header_len, size,
                     comp_method, prim,
                     HeaderAndPayload(buf, size, comp_method, encrypted, header_len, prim))

(* fil_compress_page(space, buf, out_buf, len, level, block_size,          *)
(* encrypted, out_len).  univ_debug, have: the build.  comp_method,        *)
(* page_zip_level, srv_use_trim: the globals read.  printed:               *)
(* space->printed_compression_failure.  has_space, out_given: whether      *)
(* space and out_buf are non-NULL.  codec_fails: the primitive reports an  *)
(* error of its own.                                                       *)
fil_compress_page(univ_debug, have, comp_method, page_zip_level, srv_use_trim, printed, has_space, buf, out_given, len, level, block_size, encrypted, codec_fails) ==
  IF IneligibleType(fil_page_get_type(buf))
  THEN IneligibleExit(buf, len, ~out_given, has_space, printed)
  ELSE IF comp_method = PAGE_UNCOMPRESSED
  THEN UncompressedExit(buf, len, ~out_given, printed)
  ELSE IF ~Compiled(have, comp_method)
  THEN CompressAbort(buf, ~out_given, printed)
  ELSE CompressEligible(univ_debug, have, srv_use_trim, printed, has_space, buf,
                        ~out_given, len, level, CompLevel(level, page_zip_level),
                        block_size, encrypted, HeaderLen(encrypted),
                        OutBufSize(have, comp_method), comp_method,
                        CompressPrimitive(comp_method, SubSeq(buf, 1, len),
                                          HeaderLen(encrypted),
                                          CompLevel(level, page_zip_level), codec_fails))

(* ----------------------------------------------------------------------- *)
(* Inputs                                                                  *)
(* ----------------------------------------------------------------------- *)
(* Compression levels a caller passes: 0 (none given) .. MaxLevel *)
MaxLevel == 1

Levels == 0..MaxLevel

(* The process-wide default level *)
DEFAULT_ZIP_LEVEL == 6

Algorithms == PAGE_UNCOMPRESSED..PAGE_UNKNOWN_ALGORITHM

(* Block sizes: none given, two that divide the page size, one larger than *)
(* the page                                                                *)
BlockSizes == {0, UNIV_PAGE_SIZE \div 4, 2 * UNIV_PAGE_SIZE}

(* A logical page: the four header fields, then a data area that starts    *)
(* with nlit cells without a run and is zero to the end                    *)
MakePage(type, nlit) ==
  <<7, type, 11, 3>>
  \o [i \in 1..(UNIV_PAGE_SIZE - FIL_PAGE_DATA) |-> IF i <= nlit THEN 1 + (i % 2) ELSE 0]

(* Data areas: compressible to half a page; compressible to just under a   *)
(* page; incompressible                                                    *)
LiteralLengths == {5, 17, UNIV_PAGE_SIZE - FIL_PAGE_DATA}

Pages ==
  {MakePage(FIL_PAGE_INDEX, n) : n \in LiteralLengths}
  \cup {MakePage(t, 5) : t \in {0, FIL_PAGE_TYPE_FSP_HDR, FIL_PAGE_TYPE_XDES,
                                FIL_PAGE_PAGE_COMPRESSED,
                                FIL_PAGE_PAGE_COMPRESSED_ENCRYPTED}}

(* What a damaged page has in one cell: offset and value *)
Damages ==
  {<<FIL_PAGE_SPACE_OR_CHKSUM, 7>>,
   <<FIL_PAGE_DATA, 0>>,
   <<FIL_PAGE_DATA, UNIV_PAGE_SIZE + 1>>,
   <<FIL_PAGE_DATA, UNIV_PAGE_SIZE>>,
   <<FIL_PAGE_FILE_FLUSH_LSN_OR_KEY_VERSION, PAGE_UNKNOWN_ALGORITHM>>,
   <<FIL_PAGE_DATA + FIL_PAGE_COMPRESSED_SIZE, PAGE_UNKNOWN_ALGORITHM>>,
   <<FIL_PAGE_DATA + FIL_PAGE_COMPRESSED_SIZE + FIL_PAGE_COMPRESSION_METHOD_SIZE, 0>>,
   (* the run that ends the payload of the half-page data area, in the     *)
   (* plain variant, made shorter: a stream that decodes to less than len  *)
   <<FIL_PAGE_DATA + FIL_PAGE_COMPRESSED_SIZE + 12, MIN_RUN>>}

(* ----------------------------------------------------------------------- *)
(* State                                                                   *)
(* ----------------------------------------------------------------------- *)
VARIABLES
  build,       \* [univ_debug, have]: how the server was built
  innodb_compression_algorithm,
  page_zip_level,
  srv_use_trim,
  srv_stats,   \* the four counters
  printed_compression_failure,  \* of the tablespace
  logical,     \* the page last handed to fil_compress_page
  disk,        \* the page as written, then as read back
  damage,      \* the damage done to the written page, or <<>>
  comp,        \* the last fil_compress_page call
  dec,         \* the last fil_decompress_page call
  pc,          \* "idle", "written", "read", "aborted"
  warnings,    \* compression-failure warnings logged for the tablespace
  thread       \* the calls in progress side by side, by thread

vars ==
  <<build, innodb_compression_algorithm, page_zip_level, srv_use_trim, srv_stats,
    printed_compression_failure, logical, disk, damage, comp, dec, pc, warnings,
    thread>>

config == <<build, innodb_compression_algorithm, page_zip_level, srv_use_trim>>

NoCall == [outcome |-> "none"]

Init ==
  /\ build \in [univ_debug : BOOLEAN,
                have : {OptionalCodecs, OptionalCodecs \ {PAGE_LZ4_ALGORITHM}}]
  /\ innodb_compression_algorithm \in Algorithms
  /\ build.have # OptionalCodecs => innodb_compression_algorithm = PAGE_LZ4_ALGORITHM
  /\ page_zip_level = DEFAULT_ZIP_LEVEL
  /\ srv_use_trim \in BOOLEAN
  /\ srv_stats = [page_compression_saved |-> 0, pages_page_compressed |-> 0,
                  pages_page_decompressed |-> 0, pages_page_compression_error |-> 0]
  /\ printed_compression_failure = FALSE
  /\ logical = <<>>
  /\ disk = <<>>
  /\ damage = <<>>
  /\ comp = NoCall
  /\ dec = NoCall
  /\ pc = "idle"
  /\ warnings = 0
  /\ thread = <<>>

(* The page the caller writes after the call: the buffer returned *)
Returned(r) == IF r.ret = "out_buf" THEN SubSeq(r.out, 1, UNIV_PAGE_SIZE) ELSE r.buf

(* The counters after a fil_compress_page call that returned r *)
StatsAfterCompress(stats, r) ==
  [page_compression_saved |-> (stats.page_compression_saved + r.d_saved) % ULINT_MOD,
   pages_page_compressed |-> stats.pages_page_compressed + r.d_compressed,
   pages_page_decompressed |-> stats.pages_page_decompressed + r.d_decompressed,
   pages_page_compression_error |-> stats.pages_page_compression_error + r.d_errors]

(* The call returns r to the flush path, which writes the returned buffer *)
CompressReturns(page, r) ==
  /\ r.outcome # "abort"
  /\ comp' = [r EXCEPT !.buf = <<>>, !.out = <<>>]
  /\ pc' = "written"
  /\ disk' = Returned(r)
  /\ logical' = page
  /\ srv_stats' = StatsAfterCompress(srv_stats, r)
  /\ printed_compression_failure' = r.printed
  /\ warnings' = IF r.warned THEN warnings + 1 ELSE warnings

(* ut_error or a failed debug assertion ("abort"), or a write past the end *)
(* of out_buf that brings the process down ("overrun")                     *)
CompressAborts(page, r) ==
  /\ r.outcome = "abort" \/ r.overrun
  /\ comp' = [outcome |-> IF r.outcome = "abort" THEN "abort" ELSE "overrun"]
  /\ pc' = "aborted"
  /\ disk' = <<>>
  /\ logical' = page
  /\ UNCHANGED <<srv_stats, printed_compression_failure, warnings>>

(* A call of fil_compress_page from the flush path.  crash: whether the    *)
(* call ends the process; a call that writes past the end of out_buf may   *)
(* do either                                                               *)
Compress(page, out_given, level, block_size, encrypted, has_space, codec_fails, crash) ==
  /\ pc = "idle"
  /\ IF crash
     THEN CompressAborts(page,
            fil_compress_page(build.univ_debug, build.have, innodb_compression_algorithm,
                              page_zip_level, srv_use_trim, printed_compression_failure,
                              has_space, page, out_given, UNIV_PAGE_SIZE, level,
                              block_size, encrypted, codec_fails))
     ELSE CompressReturns(page,
            fil_compress_page(build.univ_debug, build.have, innodb_compression_algorithm,
                              page_zip_level, srv_use_trim, printed_compression_failure,
                              has_space, page, out_given, UNIV_PAGE_SIZE, level,
                              block_size, encrypted, codec_fails))
  /\ UNCHANGED <<config, damage, dec, thread>>

(* A written page in the compressed format is damaged in one cell of its   *)
(* header or payload before it is read back.  Damage is explored on the    *)
(* pages written at the default level and block size: fil_decompress_page  *)
(* reads neither.                                                          *)
Damage(d) ==
  /\ pc = "written"
  /\ damage = <<>>
  /\ comp.level = 0
  /\ comp.block \in {0, DEFAULT_BLOCK_SIZE}
  /\ fil_page_get_type(disk) \in {FIL_PAGE_PAGE_COMPRESSED,
                                   FIL_PAGE_PAGE_COMPRESSED_ENCRYPTED}
  /\ disk[d[1] + 1] # d[2]
  /\ disk' = [disk EXCEPT ![d[1] + 1] = d[2]]
  /\ damage' = d
  /\ UNCHANGED <<config, srv_stats, printed_compression_failure, logical, comp, dec, pc,
                 warnings, thread>>

(* The call ends with result r: it returns, or the process is down.       *)
(* injected: the primitive was called and reported an error of its own     *)
DecompressEnds(r, codec_fails) ==
  /\ dec' = [r EXCEPT !.buf = <<>>] @@ [injected |-> codec_fails /\ r.codec_called]
  /\ pc' = IF r.outcome = "abort" THEN "aborted" ELSE "read"
  /\ disk' = r.buf
  /\ srv_stats' = [srv_stats EXCEPT !.pages_page_decompressed = @ + r.d_decompressed]

(* A call of fil_decompress_page on the page read back *)
Decompress(page_buf_given, ws_given, return_error, codec_fails) ==
  /\ pc = "written"
  /\ DecompressEnds(fil_decompress_page(build.univ_debug, build.have, disk,
                                        page_buf_given, UNIV_PAGE_SIZE, ws_given,
                                        return_error, codec_fails),
                    codec_fails)
  /\ UNCHANGED <<config, printed_compression_failure, logical, damage, comp, warnings,
                 thread>>

Next ==
  \/ \E page \in Pages, out_given \in BOOLEAN, level \in Levels,
        block_size \in BlockSizes, encrypted \in BOOLEAN, has_space \in BOOLEAN,
        codec_fails \in BOOLEAN, crash \in BOOLEAN :
       Compress(page, out_given, level, block_size, encrypted, has_space, codec_fails,
                crash)
  \/ \E d \in Damages : Damage(d)
  \/ \E page_buf_given \in BOOLEAN, ws_given \in BOOLEAN, return_error \in BOOLEAN,
        codec_fails \in BOOLEAN :
       Decompress(page_buf_given, ws_given, return_error, codec_fails)

Spec == Init /\ [][Next]_vars

(* ----------------------------------------------------------------------- *)
(* Calls one after another for one tablespace                              *)
(* ----------------------------------------------------------------------- *)
MaxCalls == 3

(* What the counters have counted: bounds the length of a sequence *)
Counted ==
  srv_stats.pages_page_compressed + srv_stats.pages_page_compression_error
  + srv_stats.pages_page_decompressed

(* A page that compresses, one that does not fit the budget, and an        *)
(* extent descriptor page                                                  *)
SeqPages ==
  {MakePage(FIL_PAGE_INDEX, 5), MakePage(FIL_PAGE_INDEX, UNIV_PAGE_SIZE - FIL_PAGE_DATA),
   MakePage(FIL_PAGE_TYPE_XDES, 5)}

(* The next fil_compress_page call of the flush path, which allocates the  *)
(* scratch buffer itself; has_space is false for a call during IMPORT      *)
SeqCompress(page, block_size, has_space, codec_fails) ==
  /\ pc \in {"idle", "written", "read"}
  /\ Counted < MaxCalls
  /\ CompressReturns(page,
        fil_compress_page(build.univ_debug, build.have, innodb_compression_algorithm,
                          page_zip_level, srv_use_trim, printed_compression_failure,
                          has_space, page, FALSE, UNIV_PAGE_SIZE, 0, block_size, FALSE,
                          codec_fails))
  /\ damage' = <<>>
  /\ UNCHANGED <<config, dec, thread>>

(* The page written last is read back and handed to fil_decompress_page *)
SeqDecompress(return_error, codec_fails) ==
  /\ pc = "written"
  /\ Counted < MaxCalls
  /\ DecompressEnds(fil_decompress_page(build.univ_debug, build.have, disk, TRUE,
                                        UNIV_PAGE_SIZE, FALSE, return_error,
                                        codec_fails),
                    codec_fails)
  /\ UNCHANGED <<config, printed_compression_failure, logical, damage, comp, warnings,
                 thread>>

SeqNext ==
  \/ \E page \in SeqPages, block_size \in BlockSizes, has_space \in BOOLEAN,
        codec_fails \in BOOLEAN :
       SeqCompress(page, block_size, has_space, codec_fails)
  \/ \E return_error \in BOOLEAN, codec_fails \in BOOLEAN :
       SeqDecompress(return_error, codec_fails)

SeqSpec == Init /\ [][SeqNext]_vars

(* ----------------------------------------------------------------------- *)
(* Calls side by side: each thread makes one call on a page buffer of its  *)
(* own; the flag of the tablespace and the counters are shared             *)
(* ----------------------------------------------------------------------- *)
Threads == {1, 2}

(* The page fil_compress_page writes for page under the configuration *)
WrittenPage(page) ==
  Returned(fil_compress_page(build.univ_debug, build.have, innodb_compression_algorithm,
                             page_zip_level, srv_use_trim, FALSE, FALSE, page, FALSE,
                             UNIV_PAGE_SIZE, 0, 0, FALSE, FALSE))

(* The calls a thread may make: fil_compress_page on a page that           *)
(* compresses, on one over the budget, on an extent descriptor page, and   *)
(* during IMPORT with a failing primitive; fil_decompress_page on a        *)
(* written page and on an extent descriptor page                           *)
ConcJobs ==
  {[op |-> "compress", page |-> page, has_space |-> TRUE, codec_fails |-> FALSE] :
     page \in SeqPages}
  \cup {[op |-> "compress", page |-> MakePage(FIL_PAGE_INDEX, 5), has_space |-> FALSE,
          codec_fails |-> TRUE]}
  \cup {[op |-> "decompress", page |-> page, has_space |-> FALSE, codec_fails |-> FALSE] :
          page \in {WrittenPage(MakePage(FIL_PAGE_INDEX, 5)),
                    MakePage(FIL_PAGE_TYPE_XDES, 5)}}

(* The call of job, by a thread that finds the flag of the tablespace as   *)
(* printed                                                                 *)
ThreadCall(job, printed) ==
  IF job.op = "compress"
  THEN fil_compress_page(build.univ_debug, build.have, innodb_compression_algorithm,
                         page_zip_level, srv_use_trim, printed, job.has_space, job.page,
                         FALSE, UNIV_PAGE_SIZE, 0, 0, FALSE, job.codec_fails)
  ELSE fil_decompress_page(build.univ_debug, build.have, job.page, TRUE, UNIV_PAGE_SIZE,
                           TRUE, TRUE, job.codec_fails)

(* An output that tells whether the call logged the warning *)
ThreadOutput_Flag(op, r) ==
  IF op = "compress"
  THEN [page |-> Returned(r), len |-> IF r.warned THEN 0 ELSE r.out_len]
  ELSE [page |-> r.buf, len |-> r.write_size]

(* What the caller gets back: the page and the length reported *)
ThreadOutput(op, r) ==
  IF op = "compress"
  THEN [page |-> Returned(r), len |-> r.out_len]
  ELSE [page |-> r.buf, len |-> r.write_size]

(* The counters after the call that ended as r *)
StatsAfterCall(stats, op, r) ==
  IF op = "compress"
  THEN StatsAfterCompress(stats, r)
  ELSE [stats EXCEPT !.pages_page_decompressed = @ + r.d_decompressed]

ConcInit ==
  /\ build \in [univ_debug : BOOLEAN, have : {OptionalCodecs}]
  /\ innodb_compression_algorithm \in {PAGE_ZLIB_ALGORITHM, PAGE_SNAPPY_ALGORITHM}
  /\ page_zip_level = DEFAULT_ZIP_LEVEL
  /\ srv_use_trim \in BOOLEAN
  /\ srv_stats = [page_compression_saved |-> 0, pages_page_compressed |-> 0,
                  pages_page_decompressed |-> 0, pages_page_compression_error |-> 0]
  /\ printed_compression_failure = FALSE
  /\ logical = <<>>
  /\ disk = <<>>
  /\ damage = <<>>
  /\ comp = NoCall
  /\ dec = NoCall
  /\ pc = "idle"
  /\ warnings = 0
  /\ thread \in [Threads -> {[job |-> j, pc |-> "start", failed |-> FALSE,
                               seen |-> FALSE, out |-> <<>>] : j \in ConcJobs}]

(* The call works on its own buffers up to err_exit or up to the counters *)
T_Body(t) ==
  /\ thread[t].pc = "start"
  /\ thread' = [thread EXCEPT
                  ![t].failed = thread[t].job.op = "compress"
                                /\ ThreadCall(thread[t].job, FALSE).outcome
                                   \in {"failed", "ineligible"},
                  ![t].pc = IF thread[t].job.op = "compress"
                               /\ ThreadCall(thread[t].job, FALSE).outcome
                                  \in {"failed", "ineligible"}
                            THEN "err_exit" ELSE "count"]
  /\ UNCHANGED <<config, srv_stats, printed_compression_failure, logical, disk, damage,
                 comp, dec, pc, warnings>>

(* err_exit: the flag of the tablespace is read and tested *)
T_TestFlag(t) ==
  /\ thread[t].pc = "err_exit"
  /\ thread' = [thread EXCEPT
                  ![t].seen = printed_compression_failure,
                  ![t].pc = IF ShouldWarn(thread[t].job.has_space,
                                          printed_compression_failure)
                            THEN "set_flag" ELSE "count"]
  /\ UNCHANGED <<config, srv_stats, printed_compression_failure, logical, disk, damage,
                 comp, dec, pc, warnings>>

(* The flag is set and the warning logged *)
T_SetFlag(t) ==
  /\ thread[t].pc = "set_flag"
  /\ printed_compression_failure' = TRUE
  /\ warnings' = warnings + 1
  /\ thread' = [thread EXCEPT ![t].pc = "count"]
  /\ UNCHANGED <<config, srv_stats, logical, disk, damage, comp, dec, pc>>

(* The counters are updated and the call returns *)
T_Return(t) ==
  /\ thread[t].pc = "count"
  /\ srv_stats' = StatsAfterCall(srv_stats, thread[t].job.op,
                                 ThreadCall(thread[t].job, thread[t].seen))
  /\ thread' = [thread EXCEPT
                  ![t].out = ThreadOutput(thread[t].job.op,
                                          ThreadCall(thread[t].job, thread[t].seen)),
                  ![t].pc = "done"]
  /\ UNCHANGED <<config, printed_compression_failure, logical, disk, damage, comp, dec,
                 pc, warnings>>

ConcNext ==
  \E t \in Threads : T_Body(t) \/ T_TestFlag(t) \/ T_SetFlag(t) \/ T_Return(t)

ConcSpec == ConcInit /\ [][ConcNext]_vars

(* ----------------------------------------------------------------------- *)
(* The header alone: written for a payload length and read back            *)
(* ----------------------------------------------------------------------- *)
(* The ids with a codec behind them *)
RegisteredAlgorithms == PAGE_ZLIB_ALGORITHM..PAGE_SNAPPY_ALGORITHM

HdrInit ==
  /\ build = [univ_debug |-> FALSE, have |-> OptionalCodecs]
  /\ innodb_compression_algorithm \in RegisteredAlgorithms
  /\ page_zip_level = DEFAULT_ZIP_LEVEL
  /\ srv_use_trim = FALSE
  /\ srv_stats = [page_compression_saved |-> 0, pages_page_compressed |-> 0,
                  pages_page_decompressed |-> 0, pages_page_compression_error |-> 0]
  /\ printed_compression_failure = FALSE
  /\ logical = <<>>
  /\ disk = <<>>
  /\ damage = <<>>
  /\ comp = NoCall
  /\ dec = NoCall
  /\ pc = "idle"
  /\ warnings = 0
  /\ thread = <<>>

(* fil_compress_page sets the header up in an out_buf not written before,  *)
(* for a payload of write_size cells                                       *)
HdrWrite(page, encrypted, write_size) ==
  /\ pc = "idle"
  /\ write_size <= UNIV_PAGE_SIZE - HeaderLen(encrypted)
  /\ disk' = WriteHeader(Fill(UNIV_PAGE_SIZE, INDETERMINATE), page,
                         innodb_compression_algorithm, encrypted, write_size)
  /\ comp' = [outcome |-> "header", header_len |-> HeaderLen(encrypted),
              payload_len |-> write_size]
  /\ logical' = page
  /\ pc' = "written"
  /\ UNCHANGED <<config, srv_stats, printed_compression_failure, damage, dec, warnings,
                 thread>>

(* fil_decompress_page reads the page type and, for a page in our format,  *)
(* the header fields                                                       *)
HdrRead ==
  /\ pc = "written"
  /\ dec' = IF fil_page_get_type(disk) \in {FIL_PAGE_PAGE_COMPRESSED,
                                             FIL_PAGE_PAGE_COMPRESSED_ENCRYPTED}
            THEN [outcome |-> "header",
                  h |-> ReadHeader(disk, fil_page_get_type(disk)
                                         = FIL_PAGE_PAGE_COMPRESSED_ENCRYPTED)]
            ELSE [outcome |-> "not_our_format"]
  /\ pc' = "read"
  /\ UNCHANGED <<config, srv_stats, printed_compression_failure, logical, disk, damage,
                 comp, warnings, thread>>

HdrNext ==
  \/ \E page \in Pages, encrypted \in BOOLEAN, write_size \in 1..UNIV_PAGE_SIZE :
       HdrWrite(page, encrypted, write_size)
  \/ HdrRead

HdrSpec == HdrInit /\ [][HdrNext]_vars

(* ----------------------------------------------------------------------- *)
(* One fil_compress_page call while innodb_compression_algorithm is being  *)
(* set                                                                     *)
(* ----------------------------------------------------------------------- *)
(* A statement that reads the global again *)
CachedMethod_Global(comp_method, global) == global

(* What the statements after the first read: the local comp_method *)
CachedMethod(comp_method, global) == comp_method

AlgInit ==
  /\ build = [univ_debug |-> FALSE, have |-> OptionalCodecs]
  /\ innodb_compression_algorithm \in RegisteredAlgorithms
  /\ page_zip_level = DEFAULT_ZIP_LEVEL
  /\ srv_use_trim = FALSE
  /\ srv_stats = [page_compression_saved |-> 0, pages_page_compressed |-> 0,
                  pages_page_decompressed |-> 0, pages_page_compression_error |-> 0]
  /\ printed_compression_failure = FALSE
  /\ logical = <<>>
  /\ disk = <<>>
  /\ damage = <<>>
  /\ comp = NoCall
  /\ dec = NoCall
  /\ pc = "idle"
  /\ warnings = 0
  /\ thread = [t \in {1} |-> [pc |-> "start", page |-> <<>>, encrypted |-> FALSE,
                               comp_method |-> 0, size |-> 0, ran |-> 0,
                               write_size |-> 0, out |-> <<>>]]

AlgUnchanged ==
  UNCHANGED <<build, page_zip_level, srv_use_trim, srv_stats, printed_compression_failure,
              logical, disk, damage, comp, dec, pc, warnings>>

(* The call is entered and the global is read into comp_method *)
A_Enter(page, encrypted) ==
  /\ thread[1].pc = "start"
  /\ thread' = [thread EXCEPT ![1].pc = "cached", ![1].page = page,
                              ![1].encrypted = encrypted,
                              ![1].comp_method = innodb_compression_algorithm]
  /\ UNCHANGED innodb_compression_algorithm
  /\ AlgUnchanged

(* The scratch buffer is sized and allocated *)
A_Alloc ==
  /\ thread[1].pc = "cached"
  /\ thread' = [thread EXCEPT
                  ![1].pc = "allocated",
                  ![1].size = OutBufSize(build.have,
                                         CachedMethod(thread[1].comp_method,
                                                      innodb_compression_algorithm))]
  /\ UNCHANGED innodb_compression_algorithm
  /\ AlgUnchanged

(* The primitive the switch selects has run: prim is what it did *)
A_CodecRan(ran, prim) ==
  /\ thread' = [thread EXCEPT
                  ![1].pc = IF prim.ok THEN "encoded" ELSE "failed",
                  ![1].ran = ran,
                  ![1].write_size = prim.write_size,
                  ![1].out = memcpy(Fill(thread[1].size, INDETERMINATE),
                                    HeaderLen(thread[1].encrypted), prim.wrote,
                                    Len(prim.wrote))]
  /\ UNCHANGED innodb_compression_algorithm
  /\ AlgUnchanged

(* switch (comp_method) *)
A_Codec ==
  /\ thread[1].pc = "allocated"
  /\ A_CodecRan(CachedMethod(thread[1].comp_method, innodb_compression_algorithm),
                CompressPrimitive(CachedMethod(thread[1].comp_method,
                                               innodb_compression_algorithm),
                                  thread[1].page, HeaderLen(thread[1].encrypted),
                                  page_zip_level, FALSE))

(* The page header is set up *)
A_Header ==
  /\ thread[1].pc = "encoded"
  /\ thread' = [thread EXCEPT
                  ![1].pc = "header_set",
                  ![1].out = WriteHeader(thread[1].out, thread[1].page,
                                         CachedMethod(thread[1].comp_method,
                                                      innodb_compression_algorithm),
                                         thread[1].encrypted, thread[1].write_size)]
  /\ UNCHANGED innodb_compression_algorithm
  /\ AlgUnchanged

(* Another thread sets the global while the call runs *)
A_SetGlobal(a) ==
  /\ thread[1].pc \in {"cached", "allocated", "encoded"}
  /\ a # innodb_compression_algorithm
  /\ innodb_compression_algorithm' = a
  /\ UNCHANGED thread
  /\ AlgUnchanged

AlgNext ==
  \/ \E page \in {MakePage(FIL_PAGE_INDEX, n) : n \in LiteralLengths},
        encrypted \in BOOLEAN : A_Enter(page, encrypted)
  \/ A_Alloc
  \/ A_Codec
  \/ A_Header
  \/ \E a \in RegisteredAlgorithms : A_SetGlobal(a)

AlgSpec == AlgInit /\ [][AlgNext]_vars

(* ----------------------------------------------------------------------- *)
(* maria_rnext: read the next row by the last used key                     *)
(* ----------------------------------------------------------------------- *)
MaxRows == 2

HA_ERR_KEY_NOT_FOUND == 120
HA_ERR_WRONG_INDEX == 124
HA_ERR_CRASHED == 126
HA_ERR_END_OF_FILE == 137

(* cur_row.lastpos of a handler without a current row: key position 0 *)
HA_OFFSET_ERROR == 0

(* The results of ma_check_index_cond: row rejected, row accepted, beyond  *)
(* the scanned range                                                       *)
IcpResults == {0, 1, 2}

(* The keys of the index in order, each with what row_is_visible and the   *)
(* index condition say of its row                                          *)
KeyRows == [visible : BOOLEAN, icp : IcpResults]

Indexes == UNION {[1..n -> KeyRows] : n \in 0..MaxRows}

(* _ma_search_first, _ma_search_next and _ma_search from key position pos: *)
(* the next bigger key, or an error with my_errno set; io_error: the page  *)
(* of the key could not be read                                            *)
SearchNext(index, pos, io_error) ==
  IF io_error
  THEN [error |-> -1, pos |-> HA_OFFSET_ERROR, my_errno |-> HA_ERR_CRASHED]
  ELSE IF pos + 1 > Len(index)
  THEN [error |-> -1, pos |-> HA_OFFSET_ERROR, my_errno |-> HA_ERR_KEY_NOT_FOUND]
  ELSE [error |-> 0, pos |-> pos + 1, my_errno |-> 0]

(* A loop test that leaves row_is_visible out *)
SkipsRow_IcpOnly(visible, icp) == icp = 0

(* The test of the skip loop: the row is not visible, or it is and the     *)
(* index condition rejects it                                              *)
SkipsRow(visible, icp) == ~visible \/ icp = 0

(* An unlock that is left out after a failed search *)
Unlocks_NoError(lock_key_trees, error) == lock_key_trees /\ error = 0

(* Whether the root lock is released behind the loop *)
Unlocks(lock_key_trees, error) == lock_key_trees

RnextInit ==
  /\ build = [univ_debug |-> FALSE, have |-> OptionalCodecs]
  /\ innodb_compression_algorithm = PAGE_UNCOMPRESSED
  /\ page_zip_level = DEFAULT_ZIP_LEVEL
  /\ srv_use_trim = FALSE
  /\ srv_stats = [page_compression_saved |-> 0, pages_page_compressed |-> 0,
                  pages_page_decompressed |-> 0, pages_page_compression_error |-> 0]
  /\ printed_compression_failure = FALSE
  /\ logical = <<>>
  /\ disk = <<>>
  /\ damage = <<>>
  /\ comp = NoCall
  /\ dec = NoCall
  /\ pc = "idle"
  /\ warnings = 0
  /\ \E index \in Indexes, lock_key_trees \in BOOLEAN, my_errno \in {0, HA_ERR_KEY_NOT_FOUND} :
       \E start \in 0..Len(index) :
         thread = [t \in {1} |->
                    [pc |-> "start", index |-> index, lock_key_trees |-> lock_key_trees,
                     start |-> start, lastpos |-> start, my_errno |-> my_errno,
                     error |-> 0, icp_res |-> 1, locked |-> 0, rdlocks |-> 0,
                     unlocks |-> 0, early |-> FALSE, ret |-> 0, row |-> 0]]

RnextUnchanged ==
  UNCHANGED <<config, srv_stats, printed_compression_failure, logical, disk, damage, comp,
              dec, pc, warnings>>

(* _ma_check_index and fast_ma_readinfo: either fails and the call returns *)
(* my_errno; else the root lock is taken when the share asks for it        *)
R_Enter(index_ok, readinfo_ok) ==
  /\ thread[1].pc = "start"
  /\ thread' =
       IF ~index_ok
       THEN [thread EXCEPT ![1].pc = "returned", ![1].early = TRUE,
                           ![1].my_errno = HA_ERR_WRONG_INDEX,
                           ![1].ret = HA_ERR_WRONG_INDEX]
       ELSE IF ~readinfo_ok
       THEN [thread EXCEPT ![1].pc = "returned", ![1].early = TRUE,
                           ![1].my_errno = HA_ERR_CRASHED, ![1].ret = HA_ERR_CRASHED]
       ELSE IF thread[1].lock_key_trees
       THEN [thread EXCEPT ![1].pc = "search", ![1].locked = @ + 1, ![1].rdlocks = @ + 1]
       ELSE [thread EXCEPT ![1].pc = "search"]
  /\ RnextUnchanged

(* The search for the first or the next key; found is what it gave *)
R_Searched(found) ==
  /\ thread' = [thread EXCEPT
                  ![1].pc = IF found.error = 0 THEN "loop" ELSE "unlock",
                  ![1].error = found.error,
                  ![1].lastpos = found.pos,
                  ![1].my_errno = IF found.error = 0 THEN @ ELSE found.my_errno]
  /\ RnextUnchanged

R_Search(io_error) ==
  /\ thread[1].pc = "search"
  /\ R_Searched(SearchNext(thread[1].index, thread[1].lastpos, io_error))

(* One test of the while loop and, when the row is skipped, the search for *)
(* the next bigger key                                                     *)
R_Loop(io_error) ==
  /\ thread[1].pc = "loop"
  /\ IF SkipsRow(thread[1].index[thread[1].lastpos].visible,
                 thread[1].index[thread[1].lastpos].icp)
     THEN /\ thread' =
               [thread EXCEPT
                  ![1].icp_res = IF thread[1].index[thread[1].lastpos].visible
                                 THEN thread[1].index[thread[1].lastpos].icp ELSE @,
                  ![1].pc = IF SearchNext(thread[1].index, thread[1].lastpos,
                                          io_error).error = 0
                            THEN "loop" ELSE "unlock",
                  ![1].error = SearchNext(thread[1].index, thread[1].lastpos,
                                          io_error).error,
                  ![1].my_errno = IF SearchNext(thread[1].index, thread[1].lastpos,
                                                io_error).error = 0
                                  THEN @
                                  ELSE SearchNext(thread[1].index, thread[1].lastpos,
                                                  io_error).my_errno,
                  ![1].lastpos = SearchNext(thread[1].index, thread[1].lastpos,
                                            io_error).pos]
     ELSE /\ ~io_error
          /\ thread' = [thread EXCEPT
                          ![1].icp_res = thread[1].index[thread[1].lastpos].icp,
                          ![1].pc = "unlock"]
  /\ RnextUnchanged

(* The root lock is released when the share asks for locking *)
R_Unlock ==
  /\ thread[1].pc = "unlock"
  /\ thread' =
       IF Unlocks(thread[1].lock_key_trees, thread[1].error)
       THEN [thread EXCEPT ![1].pc = "finish", ![1].locked = @ - 1, ![1].unlocks = @ + 1]
       ELSE [thread EXCEPT ![1].pc = "finish"]
  /\ RnextUnchanged

(* my_errno as the tail of the call leaves it before the row is read *)
RnextErrno(error, icp_res, my_errno) ==
  IF (error # 0 \/ icp_res # 1)
     /\ (IF icp_res = 2 THEN HA_ERR_END_OF_FILE ELSE my_errno) = HA_ERR_KEY_NOT_FOUND
  THEN HA_ERR_END_OF_FILE
  ELSE IF icp_res = 2 THEN HA_ERR_END_OF_FILE ELSE my_errno

(* What the call returns.  buf_given: the caller passes a record buffer;   *)
(* read_ok: read_record reads the row                                      *)
RnextReturn(error, icp_res, my_errno, lastpos, buf_given, read_ok) ==
  IF error # 0 \/ icp_res # 1
  THEN RnextErrno(error, icp_res, my_errno)
  ELSE IF ~buf_given
  THEN IF lastpos = HA_OFFSET_ERROR THEN RnextErrno(error, icp_res, my_errno) ELSE 0
  ELSE IF read_ok THEN 0 ELSE HA_ERR_CRASHED

(* The tail of the call *)
R_Finish(buf_given, read_ok) ==
  /\ thread[1].pc = "finish"
  /\ thread' = [thread EXCEPT
                  ![1].pc = "returned",
                  ![1].ret = RnextReturn(thread[1].error, thread[1].icp_res,
                                         thread[1].my_errno, thread[1].lastpos,
                                         buf_given, read_ok),
                  ![1].my_errno =
                    IF RnextReturn(thread[1].error, thread[1].icp_res,
                                   thread[1].my_errno, thread[1].lastpos, buf_given,
                                   read_ok) = 0
                    THEN RnextErrno(thread[1].error, thread[1].icp_res,
                                    thread[1].my_errno)
                    ELSE RnextReturn(thread[1].error, thread[1].icp_res,
                                     thread[1].my_errno, thread[1].lastpos, buf_given,
                                     read_ok),
                  ![1].row = IF RnextReturn(thread[1].error, thread[1].icp_res,
                                            thread[1].my_errno, thread[1].lastpos,
                                            buf_given, read_ok) = 0
                             THEN thread[1].lastpos ELSE 0]
  /\ RnextUnchanged

RnextNext ==
  \/ \E index_ok \in BOOLEAN, readinfo_ok \in BOOLEAN : R_Enter(index_ok, readinfo_ok)
  \/ \E io_error \in BOOLEAN : R_Search(io_error)
  \/ \E io_error \in BOOLEAN : R_Loop(io_error)
  \/ R_Unlock
  \/ \E buf_given \in BOOLEAN, read_ok \in BOOLEAN : R_Finish(buf_given, read_ok)

RnextSpec == RnextInit /\ [][RnextNext]_vars

(* ----------------------------------------------------------------------- *)
(* Properties                                                              *)
(* ----------------------------------------------------------------------- *)
(* The two type tags of a page in the compressed format *)
CompressedMarkers == {FIL_PAGE_PAGE_COMPRESSED, FIL_PAGE_PAGE_COMPRESSED_ENCRYPTED}

(* The type tags the compressor's type switch names *)
ExcludedTypes == {0, FIL_PAGE_TYPE_FSP_HDR, FIL_PAGE_TYPE_XDES, FIL_PAGE_PAGE_COMPRESSED}

(* A fil_decompress_page call has ended, by returning or by aborting *)
DecompressCalled == pc \in {"read", "aborted"} /\ dec.outcome # "none"

(* The step from the state is a fil_decompress_page call *)
DecompressStep == pc = "written" /\ pc' \in {"read", "aborted"}

(* The header field fil_decompress_page reads the algorithm id of page from *)
AlgorithmField(page) ==
  IF fil_page_get_type(page) = FIL_PAGE_PAGE_COMPRESSED_ENCRYPTED
  THEN FIL_PAGE_DATA + FIL_PAGE_COMPRESSED_SIZE
  ELSE FIL_PAGE_FILE_FLUSH_LSN_OR_KEY_VERSION

(* C1: round trip.  A page of an eligible type (none of the excluded tags,  *)
(* neither compressed marker) that fil_compress_page returned for, with a  *)
(* block size that divides the page size, in either header variant, at     *)
(* any level, undamaged and decoded by a primitive that does not fail of   *)
(* its own: fil_decompress_page returns and the buffer holds exactly the   *)
(* logical page, also when compression had fallen back to the plain page.  *)
C1_RoundTrip ==
  (/\ DecompressCalled
   /\ damage = <<>>
   /\ ~dec.injected
   /\ fil_page_get_type(logical) \notin ExcludedTypes \cup CompressedMarkers
   /\ comp.outcome = "compressed" => UNIV_PAGE_SIZE % comp.block = 0)
  => pc = "read" /\ disk = logical

(* A page with the encrypted header variant was compressed, decompressed    *)
(* and is the logical page again                                           *)
C1_Witness ==
  /\ pc = "read"
  /\ damage = <<>>
  /\ comp.outcome = "compressed"
  /\ comp.header_len = HeaderLen(TRUE)
  /\ comp.payload_len < UNIV_PAGE_SIZE - comp.header_len
  /\ dec.outcome = "ok"
  /\ disk = logical

(* C2: fallback.  When the codec reports an error or the payload exceeds   *)
(* page size minus header length, fil_compress_page returns the caller's   *)
(* page buffer with its bytes unchanged and out_len = len, with or         *)
(* without a target buffer.                                                *)
C2_FallbackReturnsOriginal ==
  (/\ pc = "written"
   /\ damage = <<>>
   /\ comp.codec_called
   /\ comp.outcome = "failed")
  => /\ comp.ret = "buf"
     /\ disk = logical
     /\ comp.out_len = UNIV_PAGE_SIZE

(* A payload over the budget, with a target buffer supplied *)
C2_Witness ==
  /\ pc = "written"
  /\ comp.outcome = "failed"
  /\ comp.codec_called
  /\ comp.payload_len > UNIV_PAGE_SIZE - comp.header_len
  /\ comp.allocs = 0
  /\ disk = logical

(* C3: for every value of the configured algorithm, an id without a        *)
(* compiled-in codec included, no call of fil_compress_page ends in        *)
(* ut_error or a failed assertion: the call returns a page.                *)
C3_NeverAborts == comp.outcome # "abort"

(* C4: a page whose type tag is 0, FSP_HDR, XDES or PAGE_COMPRESSED comes  *)
(* back in the input buffer, unchanged, with out_len = len, without a      *)
(* compressed header and without a codec call, whatever the algorithm.     *)
C4_IneligibleUnchanged ==
  (/\ pc = "written"
   /\ damage = <<>>
   /\ fil_page_get_type(logical) \in ExcludedTypes)
  => /\ comp.ret = "buf"
     /\ disk = logical
     /\ comp.out_len = UNIV_PAGE_SIZE
     /\ fil_page_get_type(disk) = fil_page_get_type(logical)
     /\ ~comp.codec_called

(* An extent descriptor page went through with a codec configured *)
C4_Witness ==
  /\ pc = "written"
  /\ fil_page_get_type(logical) = FIL_PAGE_TYPE_XDES
  /\ innodb_compression_algorithm = PAGE_ZLIB_ALGORITHM
  /\ disk = logical
  /\ ~comp.codec_called

(* C5: a page of an excluded type, or any page under algorithm "none",     *)
(* passes through unchanged, the compression-error counter stays as it     *)
(* was and no compression-failure warning is emitted.                      *)
C5_IneligibleIsNoError ==
  (/\ pc = "written"
   /\ damage = <<>>
   /\ \/ fil_page_get_type(logical) \in ExcludedTypes
      \/ innodb_compression_algorithm = PAGE_UNCOMPRESSED)
  => /\ disk = logical
     /\ srv_stats.pages_page_compression_error = 0
     /\ ~comp.warned

(* C6: fil_decompress_page on a page whose type tag is neither compressed  *)
(* marker returns, leaves the buffer as it was, allocates nothing, reports *)
(* no error, does not write *write_size and leaves the pages-decompressed  *)
(* counter alone.                                                          *)
C6_PassThrough ==
  [][(DecompressStep /\ fil_page_get_type(disk) \notin CompressedMarkers)
     => /\ pc' = "read"
        /\ disk' = disk
        /\ dec'.allocs = 0
        /\ dec'.errors = 0
        /\ ~dec'.ws_written
        /\ srv_stats' = srv_stats]_vars

(* An extent descriptor page, whose checksum field is not the magic, was   *)
(* read back by a caller that passes write_size and no page_buf            *)
C6_Witness ==
  /\ pc = "read"
  /\ fil_page_get_type(disk) = FIL_PAGE_TYPE_XDES
  /\ mach_read_from_4(disk, FIL_PAGE_SPACE_OR_CHKSUM) # BUF_NO_CHECKSUM_MAGIC
  /\ dec.outcome = "not_our_format"
  /\ dec.allocs = 0
  /\ ~dec.ws_written

(* C7: on a validly compressed page with a changed integrity marker, a     *)
(* payload length of 0 or over the page size, or an unregistered id in the *)
(* algorithm field, fil_decompress_page reports corruption in either       *)
(* mode, and in report mode it returns with the buffer as it was and       *)
(* without counting a decompressed page.                                   *)
C7_CorruptionDetected ==
  [][(/\ DecompressStep
      /\ comp.outcome = "compressed"
      /\ damage # <<>>
      /\ \/ damage[1] = FIL_PAGE_SPACE_OR_CHKSUM
         \/ damage[1] = FIL_PAGE_DATA /\ damage[2] \in {0, UNIV_PAGE_SIZE + 1}
         \/ damage[1] = AlgorithmField(disk) /\ damage[2] = PAGE_UNKNOWN_ALGORITHM)
     => /\ dec'.errors = 1
        /\ dec'.return_error
           => /\ pc' = "read"
              /\ disk' = disk
              /\ dec'.d_decompressed = 0]_vars

(* C8: in report mode, when the decompress primitive fails or its output   *)
(* length is wrong, fil_decompress_page returns without aborting, leaves   *)
(* the buffer as it was and does not count a decompressed page.            *)
C8_ReportModeDecodeFailure ==
  [][(/\ DecompressStep
      /\ dec'.codec_called
      /\ dec'.errors = 1
      /\ dec'.return_error)
     => /\ pc' = "read"
        /\ disk' = disk
        /\ dec'.d_decompressed = 0]_vars

(* C9: without report mode, a call that found corruption or a decode       *)
(* failure does not return: the process is aborted.                        *)
C9_FatalModeNeverReturns ==
  (DecompressCalled /\ dec.errors = 1 /\ ~dec.return_error) => pc = "aborted"

(* C10: after a successful compression, for whatever block size the caller *)
(* passed (the default when it passed zero), header length plus payload    *)
(* length rounded up to the block size is a multiple of the block size     *)
(* and at most the page size, and every cell from the end of the payload   *)
(* to that boundary is zero.                                               *)
C10_Alignment ==
  (/\ pc = "written"
   /\ damage = <<>>
   /\ comp.outcome = "compressed")
  => /\ comp.aligned % comp.block = 0
     /\ comp.aligned >= comp.header_len + comp.payload_len
     /\ comp.aligned <= UNIV_PAGE_SIZE
     /\ \A i \in (comp.header_len + comp.payload_len + 1)..comp.aligned :
          i <= Len(disk) => disk[i] = 0

(* C11: when header length plus payload length, rounded up to the block   *)
(* size, is over the page size, fil_compress_page gives compression up    *)
(* and returns the plain page; no call that returns reports an out_len    *)
(* over the page size or adds a wrapped difference to the bytes saved.     *)
C11_OversizeRejected ==
  (/\ pc = "written"
   /\ damage = <<>>
   /\ comp.codec_called)
  => /\ comp.aligned > UNIV_PAGE_SIZE => comp.outcome = "failed" /\ disk = logical
     /\ comp.out_len <= UNIV_PAGE_SIZE
     /\ comp.d_saved <= UNIV_PAGE_SIZE

(* C12: the compress primitive of every algorithm is told an output        *)
(* capacity of page size minus header length and writes no more than     *)
(* that behind the header, whether the caller supplied out_buf or the      *)
(* call allocated it.                                                      *)
C12_CapacityIsBudget ==
  (/\ pc = "written"
   /\ damage = <<>>
   /\ comp.codec_called)
  => /\ comp.codec_cap = UNIV_PAGE_SIZE - comp.header_len
     /\ comp.codec_wrote <= UNIV_PAGE_SIZE - comp.header_len

(* C13: over any sequence of fil_compress_page calls for one tablespace,  *)
(* the compression-failure warning is logged at most once: once            *)
(* printed_compression_failure is set it stays set, and no later call      *)
(* logs the warning again.                                                 *)
C13_WarnedOnce ==
  [][/\ warnings' <= 1
     /\ printed_compression_failure
        => printed_compression_failure' /\ warnings' = warnings]_vars

(* Three calls have failed for the tablespace and one warning was logged *)
C13_Witness ==
  /\ srv_stats.pages_page_compression_error = 3
  /\ printed_compression_failure
  /\ warnings = 1

(* C14: when calls of fil_compress_page for one tablespace, not warned    *)
(* about before, fail side by side, then however their steps interleave,   *)
(* once all calls have returned at least one warning has been logged.      *)
C14_AtLeastOneWarns ==
  (/\ \A t \in DOMAIN thread : thread[t].pc = "done"
   /\ \E t \in DOMAIN thread : thread[t].failed /\ thread[t].job.has_space)
  => warnings >= 1

(* Both calls failed, both found the flag unset, and both logged *)
C14_Witness ==
  /\ thread # <<>>
  /\ \A t \in DOMAIN thread : thread[t].pc = "done" /\ thread[t].failed
  /\ warnings = 2

(* C20: calls of fil_compress_page and fil_decompress_page on page        *)
(* buffers of their own, side by side in any interleaving, each return     *)
(* the page and the length the same call returns alone under the same      *)
(* configuration: neither the flag of the tablespace nor the counters,     *)
(* the only state the calls share, changes what a call returns.            *)
C20_Independent ==
  \A t \in DOMAIN thread :
    thread[t].pc = "done"
    => thread[t].out = ThreadOutput(thread[t].job.op, ThreadCall(thread[t].job, FALSE))

(* A failing compression found the flag set by the call beside it, which   *)
(* failed too, and the counters hold both errors                           *)
C20_Witness ==
  /\ thread # <<>>
  /\ \A t \in DOMAIN thread : thread[t].pc = "done" /\ thread[t].failed
  /\ \E t \in DOMAIN thread : thread[t].seen
  /\ thread[1].job # thread[2].job
  /\ srv_stats.pages_page_compression_error = 2

(* C15: a fil_compress_page call that compressed the page adds one to     *)
(* pages_page_compressed and len minus the block-aligned length to         *)
(* page_compression_saved; a call whose compression failed adds one to     *)
(* pages_page_compression_error and nothing to the other two; no call      *)
(* adds to both pages_page_compressed and pages_page_compression_error.    *)
(* (The counters are zero before the call.)                                *)
C15_CountersByOutcome ==
  (pc = "written" /\ damage = <<>>)
  => /\ comp.outcome = "compressed"
        => /\ srv_stats.pages_page_compressed = 1
           /\ srv_stats.page_compression_saved = UNIV_PAGE_SIZE - comp.aligned
     /\ comp.outcome = "failed"
        => /\ srv_stats.pages_page_compression_error = 1
           /\ srv_stats.page_compression_saved = 0
           /\ srv_stats.pages_page_compressed = 0
     /\ ~(srv_stats.pages_page_compressed > 0 /\ srv_stats.pages_page_compression_error > 0)

(* C16: over any sequence of fil_compress_page and fil_decompress_page     *)
(* calls, with any block size, no call leaves one of the four counters     *)
(* lower than it found it.                                                 *)
C16_CountersMonotonic ==
  [][/\ srv_stats'.page_compression_saved >= srv_stats.page_compression_saved
     /\ srv_stats'.pages_page_compressed >= srv_stats.pages_page_compressed
     /\ srv_stats'.pages_page_decompressed >= srv_stats.pages_page_decompressed
     /\ srv_stats'.pages_page_compression_error
        >= srv_stats.pages_page_compression_error]_vars

(* C17: after a successful compression, when srv_use_trim is false every  *)
(* cell from the aligned length to the end of the page is zero and         *)
(* out_len is the page size; when srv_use_trim is true out_len is the      *)
(* block-aligned length.                                                   *)
C17_TrimPolicy ==
  (/\ pc = "written"
   /\ damage = <<>>
   /\ comp.outcome = "compressed")
  => IF srv_use_trim
     THEN comp.out_len = comp.aligned
     ELSE /\ comp.out_len = UNIV_PAGE_SIZE
          /\ \A i \in (comp.aligned + 1)..UNIV_PAGE_SIZE : disk[i] = 0

(* Without trim, a page compressed into the caller's out_buf to less than  *)
(* the page came back zeroed behind the aligned length                     *)
C17_Witness ==
  /\ pc = "written"
  /\ damage = <<>>
  /\ ~srv_use_trim
  /\ comp.outcome = "compressed"
  /\ comp.ret = "out_buf"
  /\ comp.aligned < UNIV_PAGE_SIZE
  /\ comp.out_len = UNIV_PAGE_SIZE
  /\ \A i \in (comp.aligned + 1)..UNIV_PAGE_SIZE : disk[i] = 0

(* C18: for both header variants, every payload length from 1 to page    *)
(* size minus header length and every registered algorithm id, the header  *)
(* fil_decompress_page reads from what fil_compress_page wrote is in our   *)
(* format and gives the header length, the payload length, the algorithm   *)
(* id and the integrity marker that were written.                          *)
C18_HeaderRoundTrip ==
  (pc = "read" /\ comp.outcome = "header")
  => /\ dec.outcome = "header"
     /\ dec.h.header_len = comp.header_len
     /\ dec.h.actual_size = comp.payload_len
     /\ dec.h.compression_alg = innodb_compression_algorithm
     /\ dec.h.magic = BUF_NO_CHECKSUM_MAGIC

(* The longest payload of the encrypted variant under the last registered  *)
(* id was read back                                                        *)
C18_Witness ==
  /\ pc = "read"
  /\ comp.outcome = "header"
  /\ dec.outcome = "header"
  /\ innodb_compression_algorithm = PAGE_SNAPPY_ALGORITHM
  /\ dec.h.header_len = HeaderLen(TRUE)
  /\ dec.h.actual_size = UNIV_PAGE_SIZE - HeaderLen(TRUE)

(* C19: whenever fil_decompress_page completes successfully, under any    *)
(* algorithm, the primitive produced exactly the expected length, len:     *)
(* an output of any other length is a decode failure.                      *)
C19_DecodedLengthChecked ==
  (DecompressCalled /\ dec.outcome = "ok") => dec.decoded = UNIV_PAGE_SIZE

(* C21: a page whose type tag is one of the two compressed markers is     *)
(* not eligible: fil_compress_page calls no codec for it and returns it    *)
(* as it was, without a new compressed header.                             *)
C21_MarkedPageIneligible ==
  (/\ pc = "written"
   /\ damage = <<>>
   /\ fil_page_get_type(logical) \in CompressedMarkers)
  => /\ ~comp.codec_called
     /\ disk = logical

(* C22: the level handed to a codec that takes one is the caller's level   *)
(* when that is not zero and page_zip_level when it is zero.               *)
C22_EffectiveLevel ==
  (/\ pc = "written"
   /\ damage = <<>>
   /\ comp.outcome \in {"compressed", "failed"}
   /\ comp.codec_called
   /\ innodb_compression_algorithm \in LevelAware)
  => comp.codec_level = IF comp.level # 0 THEN comp.level ELSE page_zip_level

(* lzma was handed the caller's level, which is not the default one *)
C22_Witness ==
  /\ pc = "written"
  /\ comp.outcome = "compressed"
  /\ innodb_compression_algorithm = PAGE_LZMA_ALGORITHM
  /\ comp.level # 0
  /\ comp.level # page_zip_level
  /\ comp.codec_level = comp.level

(* C23: a fil_decompress_page call adds one to pages_page_decompressed    *)
(* when it has reconstructed the page, the codec giving the whole page,    *)
(* and copied it into the caller's buffer, and adds nothing on a           *)
(* pass-through, a header corruption or a decode failure, a decoded        *)
(* length other than the expected one included.                            *)
C23_DecompressedCounted ==
  [][DecompressStep
     => srv_stats'.pages_page_decompressed
        = srv_stats.pages_page_decompressed
          + (IF dec'.outcome = "ok" /\ dec'.decoded = UNIV_PAGE_SIZE THEN 1 ELSE 0)]_vars

(* C24: fil_compress_page reads innodb_compression_algorithm once.  When  *)
(* the global is set while the call runs, the id in the 8-byte field of    *)
(* the header and, in the encrypted variant, in the 2-byte field is the    *)
(* id of the codec that produced the payload, and the scratch buffer has   *)
(* the size chosen for that codec.                                         *)
C24_AlgorithmReadOnce ==
  thread[1].pc = "header_set"
  => /\ mach_read_from_8(thread[1].out, FIL_PAGE_FILE_FLUSH_LSN_OR_KEY_VERSION)
        = thread[1].ran
     /\ thread[1].encrypted
        => mach_read_from_2(thread[1].out, FIL_PAGE_DATA + FIL_PAGE_COMPRESSED_SIZE)
           = thread[1].ran
     /\ thread[1].size = OutBufSize(build.have, thread[1].ran)

(* An encrypted page was compressed by snappy and has snappy in its        *)
(* header although the global is lzo by now                                *)
C24_Witness ==
  /\ thread[1].pc = "header_set"
  /\ thread[1].encrypted
  /\ thread[1].ran = PAGE_SNAPPY_ALGORITHM
  /\ innodb_compression_algorithm = PAGE_LZO_ALGORITHM
  /\ thread[1].size = snappy_max_compressed_length(UNIV_PAGE_SIZE)

(* C25: a scratch buffer that fil_compress_page or fil_decompress_page    *)
(* allocated is freed once before the call returns, on every path that     *)
(* returns; a buffer of the caller is not freed (it is never counted as    *)
(* allocated, so that allocations and frees are equal at every return).    *)
C25_ScratchFreed ==
  /\ (pc = "written" /\ damage = <<>>) => comp.frees = comp.allocs
  /\ pc = "read" => dec.frees = dec.allocs

(* C26: whenever fil_decompress_page hands a payload to a codec, header   *)
(* length plus the payload length read from the header is at most the      *)
(* page size: no cell past the end of the page buffer is read.             *)
C26_PayloadInsidePage ==
  (DecompressCalled /\ dec.codec_called)
  => ~dec.overread

(* C27: in maria_rnext the read lock on the key root is balanced.  When   *)
(* share->lock_key_trees is set it is taken once, held during the first    *)
(* search and the skip loop, and released once before the call returns,    *)
(* whatever the searches, the visibility test and the index condition      *)
(* give; the two early returns take and release nothing; without           *)
(* lock_key_trees the lock is not touched.                                 *)
C27_LockBalanced ==
  /\ thread[1].pc \in {"search", "loop", "unlock"}
     => thread[1].locked = IF thread[1].lock_key_trees THEN 1 ELSE 0
  /\ thread[1].pc \in {"finish", "returned"}
     => /\ thread[1].locked = 0
        /\ thread[1].unlocks = thread[1].rdlocks
        /\ thread[1].rdlocks
           = IF thread[1].lock_key_trees /\ ~thread[1].early THEN 1 ELSE 0

(* A call under lock_key_trees skipped a row, ran off the end of the       *)
(* index and returned with the lock taken once and released once           *)
C27_Witness ==
  /\ thread[1].pc = "returned"
  /\ thread[1].lock_key_trees
  /\ thread[1].start = 0
  /\ Len(thread[1].index) = MaxRows
  /\ thread[1].error # 0
  /\ thread[1].ret = HA_ERR_END_OF_FILE
  /\ thread[1].rdlocks = 1
  /\ thread[1].unlocks = 1
  /\ thread[1].locked = 0

(* C28: maria_rnext returns 0 only at a key behind the starting position   *)
(* whose row is visible and accepted by the index condition (result 1),    *)
(* every key passed on the way having a row that is not visible or is      *)
(* rejected (result 0); when the index condition says 2, or a search ends  *)
(* with HA_ERR_KEY_NOT_FOUND, the call returns HA_ERR_END_OF_FILE.         *)
C28_RowQualifies ==
  [][thread[1].pc = "finish"
     => /\ thread'[1].ret = 0
           => /\ thread'[1].row \in (thread[1].start + 1)..Len(thread[1].index)
              /\ thread[1].index[thread'[1].row].visible
              /\ thread[1].index[thread'[1].row].icp = 1
              /\ \A k \in (thread[1].start + 1)..(thread'[1].row - 1) :
                   SkipsRow(thread[1].index[k].visible, thread[1].index[k].icp)
        /\ (\/ thread[1].icp_res = 2
            \/ thread[1].error # 0 /\ thread[1].my_errno = HA_ERR_KEY_NOT_FOUND)
           => thread'[1].ret = HA_ERR_END_OF_FILE]_vars

(* The call skipped a row that the index condition rejected and returned   *)
(* the row of the key behind it                                            *)
C28_Witness ==
  /\ thread[1].pc = "returned"
  /\ thread[1].ret = 0
  /\ thread[1].start = 0
  /\ thread[1].row = 2
  /\ thread[1].index[1].visible
  /\ thread[1].index[1].icp = 0

====
